---- MODULE Spec2Model ----
(***************************************************************************)
(* Model of the feedback-intelligence-engine jobs:                         *)
(*   scripts/process_product_support.py  (hourly ingestion job)            *)
(*   scripts/scripts/send_weekly_digest.py  (weekly digest job)            *)
(* The Slack, Notion and language-model services are the environment:      *)
(* every call to them draws its outcome nondeterministically.              *)
(***************************************************************************)
EXTENDS Integers, Sequences, FiniteSets, TLC

VARIABLES
    now,                      \* wall clock, in ticks
    runsLeft,                 \* invocations of the ingestion job still to come
    channel,                  \* messages of #product-support, oldest first
    pc,                       \* position of the ingestion process
    runStart,                 \* datetime.now() of the current ingestion run
    product_support_channel,  \* channel id found by the lookup
    batch,                    \* messages["messages"]: indices into channel
    idx,                      \* position of the for loop in batch
    answered,                 \* what the classifier was last answered
    extracted,                \* result of extract_feedback_with_claude
    status_code,              \* outcome of the last requests.post, -1 before any
    processed,                \* counter of process_product_support
    tier1_count,              \* counter of process_product_support
    summary,                  \* the printed final summary, or None
    exitCode,                 \* sys.exit code of the ingestion job, -1 while running
    cause,                    \* why process_product_support returned False
    log,                      \* per message: what this run did with it
    notion,                   \* pages of the Notion database
    dms,                      \* chat_postMessage calls made to the recipient
    entry,                    \* digest script: the function under execution
    dpc,                      \* position of the digest process
    entries,                  \* result of query_notion_past_week
    formatted,                \* result of format_entries_for_claude
    digest,                   \* digest text
    modelCalls,               \* client.messages.create calls of the digest script
    dexit                     \* sys.exit code of the digest job, -1 while running

ingestVars == <<now, runsLeft, channel, pc, runStart,
                product_support_channel, batch, idx, answered, extracted,
                status_code, processed, tier1_count, summary, exitCode, cause,
                log, notion>>
digestVars == <<entry, dpc, entries, formatted, digest, modelCalls, dexit>>
vars == <<ingestVars, dms, digestVars>>

\* Bounds of the model.
MaxMsgs == 3
MaxRunMsgs == 1
MaxRuns == 2
MaxTime == 2
MaxChannels == 2
MaxEntries == 2

\* timedelta(hours=1): the clock ticks once an hour.
Hour == 1
\* len(text) < 10
MinLen == 10

None == [kind |-> "None"]
slack_user_id == "SLACK_USER_ID"

(***************************************************************************)
(* Message texts. A text is leading whitespace, a body that neither starts *)
(* nor ends with whitespace, and trailing whitespace, each by its length.  *)
(***************************************************************************)
Txt(l, b, t) == [lead |-> l, body |-> b, trail |-> t]

\* str.strip()
strip(s) == IF s.body = 0 THEN Txt(0, 0, 0) ELSE Txt(0, s.body, 0)

\* len(str)
len(s) == s.lead + s.body + s.trail

NoSubtype == "absent"

Msg(ts, subtype, text) == [ts |-> ts, subtype |-> subtype, text |-> text]

\* The kinds of message the channel history can hold.
MsgKinds ==
    { [subtype |-> NoSubtype,         text |-> Txt(0, MinLen, 0)],
      [subtype |-> NoSubtype,         text |-> Txt(1, MinLen - 1, 1)],
      [subtype |-> NoSubtype,         text |-> Txt(2, 0, 1)],
      [subtype |-> NoSubtype,         text |-> Txt(0, 0, 0)],
      [subtype |-> "bot_message",     text |-> Txt(0, MinLen + 2, 0)],
      [subtype |-> "channel_join",    text |-> Txt(0, MinLen + 2, 0)] }

(***************************************************************************)
(* JSON values, as json.loads returns them.                                *)
(***************************************************************************)
JDict(f) == [kind |-> "dict", fields |-> f]
JList(n) == [kind |-> "list", size |-> n]
JStr(n)  == [kind |-> "str", size |-> n]
JNull    == None

Keys == {"theme", "urgency", "persona", "strategic_bucket", "snippet", "sentiment"}

Urgencies  == {"Tier 1", "Tier 2", "Tier 3"}
Personas   == {"Alice", "Peter", "Carol", "Ron", "Unknown"}
Buckets    == {"Autopilot", "Co-pilot", "Voice AI", "Other"}
Sentiments == {"Positive", "Negative", "Neutral"}

Full(u) == [theme |-> "login blocked", urgency |-> u, persona |-> "Alice",
            strategic_bucket |-> "Co-pilot", snippet |-> "cannot submit form",
            sentiment |-> "Negative"]

Without(f, k) == [x \in (DOMAIN f) \ {k} |-> f[x]]

\* JSON documents the language model may answer with.
Docs ==
    { JDict(Full("Tier 1")), JDict(Full("Tier 2")),
      JDict(Without(Full("Tier 1"), "snippet")),
      JDict(Without(Full("Tier 2"), "urgency")),
      JDict([k \in {} |-> ""]),
      JList(1), JNull }

\* bool(value)
Truthy(v) ==
    CASE v.kind = "None" -> FALSE
      [] v.kind = "dict" -> DOMAIN v.fields # {}
      [] v.kind = "list" -> v.size > 0
      [] v.kind = "str"  -> v.size > 0
      [] OTHER -> FALSE

\* value[key] evaluates without KeyError / TypeError
HasKey(v, k) == v.kind = "dict" /\ k \in DOMAIN v.fields

(***************************************************************************)
(* Response texts of the language model, as sequences of tokens.           *)
(***************************************************************************)
\* The three-backtick code fence.
Fence    == [t |-> "fence"]
WordJson == [t |-> "json"]
Ws       == [t |-> "whitespace"]
Prose    == [t |-> "prose"]
Value(d) == [t |-> "value", v |-> d]

\* str.startswith
startswith(text, tok) == Len(text) > 0 /\ text[1] = tok

RECURSIVE lstrip(_)
lstrip(text) ==
    IF Len(text) > 0 /\ Head(text) = Ws THEN lstrip(Tail(text)) ELSE text

RECURSIVE rstrip(_)
rstrip(text) ==
    IF Len(text) > 0 /\ text[Len(text)] = Ws
    THEN rstrip(SubSeq(text, 1, Len(text) - 1))
    ELSE text

\* str.strip() on a response text
stripText(text) == rstrip(lstrip(text))

\* text.split(fence)[1] for a text that starts with the fence
RECURSIVE UpToFence(_)
UpToFence(text) ==
    IF Len(text) = 0 \/ Head(text) = Fence THEN <<>>
    ELSE <<Head(text)>> \o UpToFence(Tail(text))

splitFence1(text) == UpToFence(Tail(text))

\* json.loads: one JSON value, whitespace around it allowed
JsonValid(text) ==
    LET s == stripText(text) IN Len(s) = 1 /\ s[1].t = "value"

json_loads(text) == stripText(text)[1].v

\* Lines 70-76: the text with an optional code fence removed.
Unfence(text) ==
    IF startswith(text, Fence)
    THEN LET seg == stripText(splitFence1(text))
         IN IF startswith(seg, WordJson) THEN stripText(Tail(seg)) ELSE seg
    ELSE text

ApiOk(text) == [status |-> "ok", text |-> text]
ApiError    == [status |-> "api_error", text |-> <<>>]
NoContent   == [status |-> "no_content", text |-> <<>>]

\* What the classifier was answered: a transport failure, a text that is not
\* JSON once the fence is removed, or JSON.
ResponseClass(resp) ==
    IF resp.status # "ok" THEN "transport_error"
    ELSE IF JsonValid(Unfence(resp.text)) THEN "json" ELSE "invalid_json"

\* A slip in the handler of line 79: the raw text is returned, not None.
extract_returns_text(resp) ==
    IF resp.status # "ok" THEN None
    ELSE LET text == Unfence(resp.text)
         IN IF JsonValid(text) THEN json_loads(text) ELSE JStr(Len(text) + 1)

\* extract_feedback_with_claude, given the outcome of client.messages.create
extract_feedback_with_claude(resp) ==
    IF resp.status # "ok" THEN None
    ELSE LET text == Unfence(resp.text)
         IN IF JsonValid(text) THEN json_loads(text) ELSE None

\* Answers of the language model to a classification prompt.
ClassifierResponses ==
    {ApiError, NoContent, ApiOk(<<>>), ApiOk(<<Prose>>), ApiOk(<<Fence>>),
     ApiOk(<<Fence, WordJson, Fence>>)}
    \cup {ApiOk(<<Value(d)>>) : d \in Docs}
    \cup {ApiOk(<<Ws, Value(d), Ws>>) : d \in Docs}
    \cup {ApiOk(<<Fence, WordJson, Ws, Value(d), Ws, Fence>>) : d \in Docs}
    \cup {ApiOk(<<Fence, Ws, Value(d), Ws, Fence, Ws, Prose>>) : d \in Docs}
    \cup {ApiOk(<<WordJson, Value(d)>>) : d \in Docs}
    \cup {ApiOk(<<Prose, Fence, Value(d), Fence>>) : d \in Docs}
    \cup {ApiOk(<<Value(d), Value(d)>>) : d \in Docs}

(***************************************************************************)
(* create_notion_entry                                                     *)
(***************************************************************************)
\* source_map.get(source, source)
source_map(source) ==
    CASE source = "product-support" -> "product-support"
      [] source = "trustpilot" -> "trustpilot-reviews"
      [] OTHER -> source

\* The payload dict can be built: every subscript of lines 101-132 evaluates.
PayloadBuilds(data) == \A k \in Keys : HasKey(data, k)

payload(data, source, t) ==
    [Title |-> data.fields["theme"], Date |-> t, Source |-> source_map(source),
     Tier |-> data.fields["urgency"], Persona |-> data.fields["persona"],
     StrategicBucket |-> data.fields["strategic_bucket"],
     Snippet |-> data.fields["snippet"], Theme |-> data.fields["theme"],
     Sentiment |-> data.fields["sentiment"]]

\* Outcomes of requests.post: a status code, or 0 for a transport error.
TransportError == 0
HttpOutcomes == {TransportError, 200, 201, 400}

Is2xx(status) == status >= 200 /\ status < 300

\* A slip in line 141: every success status is accepted.
create_notion_entry_2xx(http) == http # TransportError /\ Is2xx(http)

\* Return value of create_notion_entry once the payload is built.
create_notion_entry(http) == http # TransportError /\ http = 200

\* The database creates the page when it answers with a success status.
PageCreated(http) == Is2xx(http)

(***************************************************************************)
(* send_tier1_alert                                                        *)
(***************************************************************************)
alert_msg(data) ==
    [kind |-> "TIER 1 ALERT", theme |-> data.fields["theme"],
     persona |-> data.fields["persona"],
     strategic_bucket |-> data.fields["strategic_bucket"],
     snippet |-> data.fields["snippet"]]

\* extracted["urgency"] == "Tier 1"
IsTier1(data) == data.fields["urgency"] = "Tier 1"

(***************************************************************************)
(* process_product_support                                                 *)
(***************************************************************************)
\* Channels of the workspace, as conversations_list describes them.
Channels == {[name |-> "general", id |-> "C_GENERAL"],
             [name |-> "product-support", id |-> "C_SUPPORT"]}

RECURSIVE SeqsUpTo(_, _)
SeqsUpTo(S, n) ==
    IF n = 0 THEN {<<>>}
    ELSE LET shorter == SeqsUpTo(S, n - 1)
         IN shorter \cup {Append(s, x) : s \in {q \in shorter : Len(q) = n - 1}, x \in S}

ChannelLists == SeqsUpTo(Channels, MaxChannels)

\* Lines 185-190: id of the first channel with the name, or None.
FindChannel(channels) ==
    LET hits == {i \in 1..Len(channels) : channels[i].name = "product-support"}
    IN IF hits = {} THEN "None"
       ELSE channels[CHOOSE i \in hits : \A j \in hits : i <= j].id

\* A slip in line 199: the window is an hour too long.
two_hours_ago(t) == t - 2 * Hour

\* Line 199: the cutoff passed as oldest.
one_hour_ago(t) == t - Hour

\* conversations.history: messages after oldest and not after the call time.
InHistory(m, oldest, t) == m.ts > oldest /\ m.ts <= t

\* conversations.history answers newest first.
RECURSIVE History(_, _, _, _)
History(msgs, i, oldest, t) ==
    IF i = 0 THEN <<>>
    ELSE IF InHistory(msgs[i], oldest, t)
         THEN <<i>> \o History(msgs, i - 1, oldest, t)
         ELSE History(msgs, i - 1, oldest, t)

\* Lines 217-225: the message is skipped before classification.
Filtered(message) ==
    LET text == strip(message.text)
    IN \/ len(text) = 0
       \/ message.subtype \in {"bot_message", "message_deleted"}
       \/ len(text) < MinLen

\* A slip in line 258: the result is ignored.
ExitCodeAlwaysZero(success) == 0

\* sys.exit(0 if success else 1)
ExitCode(success) == IF success THEN 0 ELSE 1

\* A slip in lines 236-237: counted whatever the write returned.
CountAlways(n, ok) == n + 1

\* Lines 236-237 and 241-242: a counter grows when the call returned True.
Count(n, ok) == IF ok THEN n + 1 ELSE n

NoLog == [classified |-> 0, result |-> "none", urgency |-> "none",
          write |-> "none", alertTries |-> 0, alertOk |-> 0]

cur == batch[idx]

Return(success, why) ==
    /\ pc' = "exit"
    /\ exitCode' = ExitCode(success)
    /\ cause' = why

\* The job is invoked.
StartRun ==
    /\ pc = "idle"
    /\ runsLeft > 0
    /\ runsLeft' = runsLeft - 1
    /\ runStart' = now
    /\ pc' = "list"
    /\ product_support_channel' = "None"
    /\ batch' = <<>>
    /\ idx' = 1
    /\ answered' = "none"
    /\ extracted' = None
    /\ status_code' = -1
    /\ processed' = 0
    /\ tier1_count' = 0
    /\ summary' = None
    /\ exitCode' = -1
    /\ cause' = "none"
    /\ log' = [i \in DOMAIN channel |-> NoLog]
    /\ UNCHANGED <<now, channel, notion, dms, digestVars>>

\* Lines 184-196: conversations_list answers and the channel is looked up.
ListChannels ==
    /\ pc = "list"
    /\ \E channels \in ChannelLists :
         LET id == FindChannel(channels)
         IN /\ product_support_channel' = id
            /\ IF id = "None"
               THEN Return(FALSE, "channel_not_found")
               ELSE pc' = "history" /\ UNCHANGED <<exitCode, cause>>
    /\ UNCHANGED <<answered, status_code, now, runsLeft, channel, runStart, batch, idx,
                   extracted, processed, tier1_count, summary, log, notion,
                   dms, digestVars>>

\* conversations_list or conversations_history raises.
SlackRaises ==
    /\ pc \in {"list", "history"}
    /\ Return(FALSE, "exception")
    /\ UNCHANGED <<answered, status_code, now, runsLeft, channel, runStart,
                   product_support_channel, batch, idx, extracted, processed,
                   tier1_count, summary, log, notion, dms, digestVars>>

\* Lines 199-213: the history of the last hour is fetched.
FetchHistory ==
    /\ pc = "history"
    /\ LET messages == History(channel, Len(channel), one_hour_ago(runStart), now)
       IN /\ batch' = messages
          /\ IF Len(messages) = 0
             THEN Return(TRUE, "none")
             ELSE pc' = "loop" /\ UNCHANGED <<exitCode, cause>>
    /\ UNCHANGED <<answered, status_code, now, runsLeft, channel, runStart,
                   product_support_channel, idx, extracted, processed,
                   tier1_count, summary, log, notion, dms, digestVars>>

\* Lines 217-225: a message that is not content is skipped.
Skip ==
    /\ pc = "loop"
    /\ idx <= Len(batch)
    /\ Filtered(channel[cur])
    /\ idx' = idx + 1
    /\ UNCHANGED <<answered, status_code, now, runsLeft, channel, pc, runStart,
                   product_support_channel, batch, extracted, processed,
                   tier1_count, summary, exitCode, cause, log, notion, dms,
                   digestVars>>

\* Lines 227-233: the message is classified.
Classify ==
    /\ pc = "loop"
    /\ idx <= Len(batch)
    /\ ~Filtered(channel[cur])
    /\ \E resp \in ClassifierResponses :
         LET data == extract_feedback_with_claude(resp)
         IN /\ answered' = ResponseClass(resp)
            /\ extracted' = data
            /\ log' = [log EXCEPT ![cur].classified = @ + 1,
                                  ![cur].result = IF Truthy(data) THEN "ok" ELSE "failed",
                                  ![cur].urgency = IF HasKey(data, "urgency")
                                                   THEN data.fields["urgency"]
                                                   ELSE "none"]
            /\ IF ~Truthy(data)
               THEN pc' = "loop" /\ idx' = idx + 1
               ELSE pc' = "write" /\ idx' = idx
    /\ UNCHANGED <<status_code, now, runsLeft, channel, runStart,
                   product_support_channel, batch, processed, tier1_count,
                   summary, exitCode, cause, notion, dms, digestVars>>

\* Lines 236-240: the record is written; the urgency decides what follows.
Write ==
    /\ pc = "write"
    /\ IF ~PayloadBuilds(extracted)
       THEN /\ Return(FALSE, "exception")
            /\ log' = [log EXCEPT ![cur].write = "raised"]
            /\ UNCHANGED <<idx, processed, notion, status_code>>
       ELSE \E http \in HttpOutcomes :
              LET ok == create_notion_entry(http)
              IN /\ processed' = Count(processed, ok)
                 /\ status_code' = http
                 /\ log' = [log EXCEPT ![cur].write = IF ok THEN "ok" ELSE "fail"]
                 /\ notion' = IF PageCreated(http)
                              THEN Append(notion, [msg |-> cur, run |-> runStart,
                                     props |-> payload(extracted, "product-support", now)])
                              ELSE notion
                 /\ IF IsTier1(extracted)
                    THEN pc' = "alert" /\ idx' = idx
                    ELSE pc' = "loop" /\ idx' = idx + 1
                 /\ UNCHANGED <<exitCode, cause>>
    /\ UNCHANGED <<answered, now, runsLeft, channel, runStart,
                   product_support_channel, batch, extracted, tier1_count,
                   summary, dms, digestVars>>

\* Lines 241-242: send_tier1_alert.
Alert ==
    /\ pc = "alert"
    /\ \E delivered \in BOOLEAN :
         /\ dms' = Append(dms, [to |-> slack_user_id, text |-> alert_msg(extracted),
                                delivered |-> delivered])
         /\ tier1_count' = Count(tier1_count, delivered)
         /\ log' = [log EXCEPT ![cur].alertTries = @ + 1,
                               ![cur].alertOk = IF delivered THEN @ + 1 ELSE @]
    /\ pc' = "loop"
    /\ idx' = idx + 1
    /\ UNCHANGED <<answered, status_code, now, runsLeft, channel, runStart,
                   product_support_channel, batch, extracted, processed,
                   summary, exitCode, cause, notion, digestVars>>

\* Lines 244-248: the loop is over, the summary is printed.
Summary ==
    /\ pc = "loop"
    /\ idx > Len(batch)
    /\ summary' = [processed |-> processed, tier1 |-> tier1_count]
    /\ Return(TRUE, "none")
    /\ UNCHANGED <<answered, status_code, now, runsLeft, channel, runStart,
                   product_support_channel, batch, idx, extracted, processed,
                   tier1_count, log, notion, dms, digestVars>>

\* sys.exit: the process ends and its memory is gone.
Terminate ==
    /\ pc = "exit"
    /\ pc' = "idle"
    /\ runStart' = 0
    /\ product_support_channel' = "None"
    /\ batch' = <<>>
    /\ idx' = 1
    /\ answered' = "none"
    /\ extracted' = None
    /\ status_code' = -1
    /\ processed' = 0
    /\ tier1_count' = 0
    /\ summary' = None
    /\ exitCode' = -1
    /\ cause' = "none"
    /\ log' = [i \in DOMAIN channel |-> NoLog]
    /\ UNCHANGED <<now, runsLeft, channel, notion, dms, digestVars>>

\* Time passes between two invocations of the job.
Tick ==
    /\ pc = "idle"
    /\ runsLeft > 0
    /\ now < MaxTime
    /\ now' = now + 1
    /\ UNCHANGED <<answered, status_code, runsLeft, channel, pc, runStart,
                   product_support_channel, batch, idx, extracted, processed,
                   tier1_count, summary, exitCode, cause, log, notion, dms,
                   digestVars>>

(***************************************************************************)
(* send_weekly_digest.py                                                   *)
(***************************************************************************)
Str(text) == [kind |-> "str", value |-> text]

\* Line 190; the literal ends with the character U+2705.
PlaceholderReport == "# Weekly Feedback Summary\n\nNo feedback collected this week. [U+2705]"

\* Line 107.
NoFeedbackText == "No feedback collected this week."

\* bool(digest)
TruthyText(d) == d.kind = "str" /\ d.value # ""

RichTextProps == {"Theme", "Snippet"}
SelectProps   == {"Persona", "Tier", "Sentiment", "Source", "Strategic Bucket"}
PropNames     == RichTextProps \cup SelectProps

RichText(content) == [rich_text |-> <<[text |-> [content |-> content]]>>]
NoRichText        == [rich_text |-> <<>>]
Select(name)      == [select |-> [name |-> name]]
NoSelect          == [select |-> None]

SampleValue(k) ==
    CASE k = "Theme" -> "pricing unclear"
      [] k = "Snippet" -> "fees were a surprise"
      [] k = "Persona" -> "Carol"
      [] k = "Tier" -> "Tier 2"
      [] k = "Sentiment" -> "Negative"
      [] k = "Source" -> "product-support"
      [] OTHER -> "Autopilot"

\* Every page over the schema: each property absent, empty or set.
AllProps ==
    {[k \in {x \in PropNames : c[x] # "absent"} |->
        IF c[k] = "set"
        THEN (IF k \in RichTextProps THEN RichText(SampleValue(k)) ELSE Select(SampleValue(k)))
        ELSE (IF k \in RichTextProps THEN NoRichText ELSE NoSelect)] :
     c \in [PropNames -> {"absent", "empty", "set"}]}

Page(props) == [properties |-> props]
NoPropertiesPage == [id |-> "page"]

AllPages == {Page(props) : props \in AllProps} \cup {NoPropertiesPage}

OtherPage ==
    Page([Theme |-> RichText("call dropped"), Persona |-> Select("Ron"),
          Tier |-> Select("Tier 1")])

SamplePages ==
    {OtherPage, NoPropertiesPage,
     Page([k \in PropNames |-> IF k \in RichTextProps THEN RichText(SampleValue(k))
                                ELSE Select(SampleValue(k))])}

\* Results the database query can answer with.
QueryResults ==
    {<<page>> : page \in AllPages} \cup SeqsUpTo(SamplePages, MaxEntries)

\* dict.get(key, default)
Get(d, key, default) == IF key \in DOMAIN d THEN d[key] ELSE default

EmptyDict == [k \in {} |-> None]

\* A slip in lines 69-88: one placeholder for every field.
DefaultNA(key) == "N/A"

\* Lines 70-88: the placeholder of a field that is not set.
Default(key) ==
    CASE key = "Persona" -> "Unknown"
      [] key = "Strategic Bucket" -> "Other"
      [] OTHER -> "N/A"

\* Lines 69-70 and 81-82.
rich_text_of(props, key) ==
    LET value == Get(Get(props, key, EmptyDict), "rich_text", <<>>)
    IN IF Len(value) > 0 THEN value[1].text.content ELSE Default(key)

\* Lines 72-79 and 84-88.
select_of(props, key) ==
    LET value == Get(Get(props, key, EmptyDict), "select", None)
    IN IF value # None THEN value.name ELSE Default(key)

\* Lines 66-98: one record becomes one flat entry.
format_entry(page) ==
    LET props == Get(page, "properties", EmptyDict)
    IN [theme |-> rich_text_of(props, "Theme"),
        persona |-> select_of(props, "Persona"),
        tier |-> select_of(props, "Tier"),
        sentiment |-> select_of(props, "Sentiment"),
        snippet |-> rich_text_of(props, "Snippet"),
        source |-> select_of(props, "Source"),
        bucket |-> select_of(props, "Strategic Bucket")]

format_entries_for_claude(notion_entries) ==
    [i \in 1..Len(notion_entries) |-> format_entry(notion_entries[i])]

\* A slip in line 106: the model is asked even for an empty list.
AlwaysAsksModel(formatted_entries) == FALSE

\* Line 106: generate_digest_with_claude answers without the model.
AnswersWithoutModel(formatted_entries) == Len(formatted_entries) = 0

\* Answers of the language model to the digest prompt; None: the call raised.
DigestAnswers == {Str("# Weekly Feedback Summary ..."), Str(""), None}

\* Inputs of a direct call of generate_digest_with_claude.
GenerateInputs == {format_entries_for_claude(r) : r \in SeqsUpTo(SamplePages, MaxEntries)}

\* Lines 186-199 of main: query, then the placeholder or the formatted entries.
Query ==
    /\ entry = "main"
    /\ dpc = "query"
    /\ \E result \in QueryResults, status \in HttpOutcomes :
         LET found == IF status = 200 THEN result ELSE <<>>
         IN /\ entries' = found
            /\ IF Len(found) = 0
               THEN /\ digest' = Str(PlaceholderReport)
                    /\ formatted' = formatted
                    /\ dpc' = "send"
               ELSE /\ formatted' = format_entries_for_claude(found)
                    /\ digest' = digest
                    /\ dpc' = "generate"
    /\ UNCHANGED <<ingestVars, dms, entry, modelCalls, dexit>>

\* generate_digest_with_claude, and lines 201-203 of main.
Generate ==
    /\ dpc = "generate"
    /\ IF AnswersWithoutModel(formatted)
       THEN /\ digest' = Str(NoFeedbackText)
            /\ modelCalls' = modelCalls
       ELSE /\ modelCalls' = modelCalls + 1
            /\ \E answer \in DigestAnswers : digest' = answer
    /\ IF entry = "main"
       THEN IF TruthyText(digest')
            THEN dpc' = "send" /\ dexit' = dexit
            ELSE dpc' = "exit" /\ dexit' = ExitCode(FALSE)
       ELSE dpc' = "returned" /\ dexit' = dexit
    /\ UNCHANGED <<ingestVars, dms, entry, entries, formatted>>

\* Lines 212-216 of main: send_digest_to_slack.
Send ==
    /\ dpc = "send"
    /\ \E delivered \in BOOLEAN :
         /\ dms' = Append(dms, [to |-> slack_user_id, text |-> digest,
                                delivered |-> delivered])
         /\ dexit' = ExitCode(delivered)
    /\ dpc' = "exit"
    /\ UNCHANGED <<ingestVars, entry, entries, formatted, digest, modelCalls>>

(***************************************************************************)
(* Specifications                                                          *)
(***************************************************************************)
DigestIdle ==
    /\ entry = "none" /\ dpc = "idle" /\ entries = <<>> /\ formatted = <<>>
    /\ digest = None /\ modelCalls = 0 /\ dexit = -1

IngestStart ==
    /\ pc = "idle" /\ runStart = 0
    /\ product_support_channel = "None" /\ batch = <<>> /\ idx = 1
    /\ answered = "none" /\ extracted = None /\ status_code = -1
    /\ processed = 0 /\ tier1_count = 0
    /\ summary = None /\ exitCode = -1 /\ cause = "none"
    /\ log = [i \in DOMAIN channel |-> NoLog]
    /\ notion = <<>> /\ dms = <<>>

\* One invocation over a channel holding any messages of the last hour.
Init ==
    /\ now = Hour
    /\ runsLeft = 1
    /\ channel \in {[i \in DOMAIN s |-> Msg(Hour, s[i].subtype, s[i].text)] :
                      s \in SeqsUpTo(MsgKinds, MaxMsgs)}
    /\ IngestStart
    /\ DigestIdle

Next ==
    \/ StartRun
    \/ ListChannels
    \/ SlackRaises
    \/ FetchHistory
    \/ Skip
    \/ Classify
    \/ Write
    \/ Alert
    \/ Summary

Spec == Init /\ [][Next]_vars

\* Messages of the run schedule: one that qualifies, one that is too short.
RunMsgKinds ==
    { [subtype |-> NoSubtype, text |-> Txt(0, MinLen, 0)],
      [subtype |-> NoSubtype, text |-> Txt(1, MinLen - 1, 1)] }

Sorted(msgs) == \A i \in 1..(Len(msgs) - 1) : msgs[i].ts <= msgs[i + 1].ts

\* Several invocations as time passes, over messages posted at any time.
InitRuns ==
    /\ now = 0
    /\ runsLeft = MaxRuns
    /\ channel \in {s \in SeqsUpTo({Msg(t, k.subtype, k.text) :
                                      t \in 0..MaxTime, k \in RunMsgKinds}, MaxRunMsgs) :
                      Sorted(s)}
    /\ IngestStart
    /\ DigestIdle

NextRuns == Next \/ Terminate \/ Tick

SpecRuns == InitRuns /\ [][NextRuns]_vars

\* The digest script: main, or generate_digest_with_claude called directly.
InitDigest ==
    /\ now = 0 /\ runsLeft = 0 /\ channel = <<>>
    /\ IngestStart
    /\ entries = <<>> /\ modelCalls = 0 /\ dexit = -1 /\ digest = None
    /\ \/ entry = "main" /\ dpc = "query" /\ formatted = <<>>
       \/ /\ entry = "generate_digest_with_claude"
          /\ dpc = "generate"
          /\ formatted \in GenerateInputs

NextDigest == Query \/ Generate \/ Send

SpecDigest == InitDigest /\ [][NextDigest]_vars

(***************************************************************************)
(* Properties                                                              *)
(***************************************************************************)
Range(s) == {s[i] : i \in DOMAIN s}

\* Positions of the batch whose record write returned.
Written == {p \in 1..Len(batch) : log[batch[p]].write \in {"ok", "fail"}}

\* The position status_code belongs to.
LastWritten == CHOOSE p \in Written : \A q \in Written : q <= p

\* A message that is not content: empty once trimmed, a bot or system
\* message, or shorter than MinLen characters.
NonContent(m) ==
    \/ len(strip(m.text)) = 0
    \/ m.subtype # NoSubtype
    \/ len(strip(m.text)) < MinLen

\* All six fields present, the four enumerated ones from their enumerations.
CompleteRecord(v) ==
    /\ v.kind = "dict"
    /\ DOMAIN v.fields = Keys
    /\ v.fields["urgency"] \in Urgencies
    /\ v.fields["persona"] \in Personas
    /\ v.fields["strategic_bucket"] \in Buckets
    /\ v.fields["sentiment"] \in Sentiments

\* C1: when the run has ended, every message whose classification succeeded
\* has had exactly one alert send attempt if its urgency is "Tier 1" and none
\* otherwise.
C1_OneAlertPerTier1 ==
    pc = "exit" =>
        \A i \in Range(batch) :
            log[i].result = "ok" =>
                log[i].alertTries = (IF log[i].urgency = "Tier 1" THEN 1 ELSE 0)

\* C2: a classification answered by a transport error or by text that is not
\* JSON yields None, writes no record, sends no alert, leaves the counters
\* and the exit code alone and moves the loop to the next message; a run that
\* reaches its summary has classified every message that passed the filter
\* exactly once.
C2_ClassifierFailureNonFatal ==
    /\ [][(/\ pc = "loop"
           /\ idx <= Len(batch)
           /\ log'[cur].classified = log[cur].classified + 1
           /\ answered' \in {"transport_error", "invalid_json"})
          => (/\ extracted' = None
              /\ pc' = "loop"
              /\ idx' = idx + 1
              /\ notion' = notion
              /\ dms' = dms
              /\ processed' = processed
              /\ tier1_count' = tier1_count
              /\ exitCode' = -1)]_vars
    /\ [](summary # None =>
            \A i \in Range(batch) : ~Filtered(channel[i]) => log[i].classified = 1)

\* C2 witness: the answer to the first message was not JSON and the loop
\* stands on a second message that passes the filter.
C2_Witness ==
    /\ pc = "loop" /\ idx = 2 /\ Len(batch) >= 2
    /\ answered = "invalid_json"
    /\ log[batch[1]].result = "failed"
    /\ ~Filtered(channel[batch[2]])
    /\ exitCode = -1

\* C3: extract_feedback_with_claude returns None or a complete record.
C3_CompleteOrNone == extracted = None \/ CompleteRecord(extracted)

\* C4 as claimed: a write that returned is a failure exactly when the answer
\* was a transport error or a status outside 2xx.
C4_FailedIffNot2xx ==
    Written # {} =>
        (log[batch[LastWritten]].write = "fail"
            <=> (status_code = TransportError \/ ~Is2xx(status_code)))

\* C4 as amended: a write that returned is a success exactly when the answer
\* was status 200; processed counts the successful writes only; and the run
\* is never aborted at a message whose write returned.
C4_SuccessIff200 ==
    /\ Written # {} =>
         (log[batch[LastWritten]].write = "ok" <=> status_code = 200)
    /\ processed = Cardinality({p \in Written : log[batch[p]].write = "ok"})
    /\ (pc = "exit" /\ cause = "exception" /\ Len(batch) > 0) => idx \notin Written

\* C4 witness: the database answered 201, the write was counted as failed,
\* and the run went on to its summary with nothing processed.
C4_Witness ==
    /\ summary # None
    /\ Written # {}
    /\ status_code = 201
    /\ log[batch[LastWritten]].write = "fail"
    /\ summary.processed = 0

\* C5: the summary's Processed is the number of fetched messages that passed
\* the filter, were classified and written with success; its Tier 1 alerts is
\* the number of messages classified "Tier 1" whose alert was delivered.
C5_SummaryCounts ==
    summary # None =>
        /\ summary.processed =
             Cardinality({i \in Range(batch) : /\ ~Filtered(channel[i])
                                               /\ log[i].result = "ok"
                                               /\ log[i].write = "ok"})
        /\ summary.tier1 =
             Cardinality({i \in Range(batch) : /\ log[i].urgency = "Tier 1"
                                               /\ log[i].alertOk = 1})

\* C5 witness: three messages, one too short, one Tier 2, one Tier 1, every
\* call succeeding: Processed 2, Tier 1 alerts 1.
C5_Witness ==
    /\ summary = [processed |-> 2, tier1 |-> 1]
    /\ Len(batch) = 3
    /\ \E a, b, c \in Range(batch) :
         /\ Filtered(channel[a]) /\ len(channel[a].text) >= MinLen
         /\ log[b].urgency = "Tier 2" /\ log[b].write = "ok" /\ log[b].alertTries = 0
         /\ log[c].urgency = "Tier 1" /\ log[c].write = "ok" /\ log[c].alertOk = 1

\* C7: the exit code is 1 exactly when the run met a fatal error (an exception
\* or no channel) and 0 otherwise; a run that reached its summary or found no
\* message exits with 0; nothing after the point of a fatal error is touched.
C7_ExitCode ==
    pc = "exit" =>
        /\ exitCode \in {0, 1}
        /\ exitCode = 1 <=> cause \in {"exception", "channel_not_found"}
        /\ cause = "channel_not_found" <=> product_support_channel = "None" /\ cause # "exception"
        /\ summary # None => exitCode = 0
        /\ (cause = "none" /\ Len(batch) = 0) => exitCode = 0
        /\ cause # "none" =>
             /\ summary = None
             /\ \A p \in (idx + 1)..Len(batch) : log[batch[p]] = NoLog

\* C7 witness: a run with a failed classification, a failed write and a
\* failed alert exits with 0.
C7_Witness ==
    /\ pc = "exit" /\ exitCode = 0
    /\ \E i, j \in Range(batch) :
         /\ log[i].result = "failed"
         /\ log[j].write = "fail"
         /\ log[j].alertTries = 1 /\ log[j].alertOk = 0

\* C10: no message that is not content is ever classified, and a run that
\* reaches its summary has classified every other message exactly once.
C10_OnlyContentClassified ==
    /\ \A i \in DOMAIN log : log[i].classified > 0 => ~NonContent(channel[i])
    /\ summary # None =>
         \A i \in Range(batch) : ~NonContent(channel[i]) => log[i].classified = 1

\* The hour before a run's start.
InWindow(ts, start) == start - Hour < ts /\ ts <= start

\* C9: the batch of a run is exactly the messages of the hour before its
\* start; records and classifications exist only for messages inside the
\* window of the run that made them; and a run that reaches its summary has
\* classified every qualifying message of its window, whatever earlier runs
\* have written.
C9_WindowOnly ==
    /\ (pc \in {"loop", "write", "alert"} \/ summary # None) =>
         Range(batch) = {i \in DOMAIN channel : InWindow(channel[i].ts, runStart)}
    /\ \A k \in DOMAIN notion : InWindow(channel[notion[k].msg].ts, notion[k].run)
    /\ \A i \in DOMAIN log : log[i].classified > 0 => InWindow(channel[i].ts, runStart)
    /\ summary # None =>
         \A i \in DOMAIN channel :
            (InWindow(channel[i].ts, runStart) /\ ~Filtered(channel[i]))
                => log[i].classified = 1

\* C9 witness: one message has two records and two delivered alerts, while
\* the job is in its second run.
C9_Witness ==
    /\ runsLeft = MaxRuns - 2
    /\ \E i \in DOMAIN channel :
         /\ Cardinality({k \in DOMAIN notion : notion[k].msg = i}) = 2
         /\ log[i].alertOk = 1
    /\ Cardinality({k \in DOMAIN dms : dms[k].delivered}) = 2

FlatKeys == {"theme", "persona", "tier", "sentiment", "snippet", "source", "bucket"}

\* The property a flat key is read from.
PropOf(key) ==
    CASE key = "theme" -> "Theme"
      [] key = "persona" -> "Persona"
      [] key = "tier" -> "Tier"
      [] key = "sentiment" -> "Sentiment"
      [] key = "snippet" -> "Snippet"
      [] key = "source" -> "Source"
      [] OTHER -> "Strategic Bucket"

\* The page holds a value for the property.
IsSet(page, prop) ==
    /\ "properties" \in DOMAIN page
    /\ prop \in DOMAIN page.properties
    /\ page.properties[prop] \notin {NoRichText, NoSelect}

ValueOf(page, prop) ==
    IF prop \in RichTextProps
    THEN page.properties[prop].rich_text[1].text.content
    ELSE page.properties[prop].select.name

\* The placeholder the claim names for a flat key.
Placeholder(key) ==
    CASE key = "persona" -> "Unknown"
      [] key = "bucket" -> "Other"
      [] OTHER -> "N/A"

\* C8: format_entries_for_claude gives one flat entry per record, in order,
\* each with the seven keys; a key holds the record's value when the record
\* has one and the key's placeholder when it has none.
C8_FlatEntries ==
    (entry = "main" /\ dpc # "query" /\ Len(entries) > 0) =>
        /\ Len(formatted) = Len(entries)
        /\ \A i \in 1..Len(entries) :
             /\ DOMAIN formatted[i] = FlatKeys
             /\ \A key \in FlatKeys :
                  formatted[i][key] =
                     IF IsSet(entries[i], PropOf(key))
                     THEN ValueOf(entries[i], PropOf(key))
                     ELSE Placeholder(key)

\* C8 witness: a record without Theme, Persona and Strategic Bucket but with
\* a Tier has been formatted.
C8_Witness ==
    /\ entry = "main" /\ dpc = "generate" /\ Len(entries) = 1
    /\ ~IsSet(entries[1], "Theme")
    /\ ~IsSet(entries[1], "Persona")
    /\ ~IsSet(entries[1], "Strategic Bucket")
    /\ IsSet(entries[1], "Tier")
    /\ formatted[1].theme = "N/A"
    /\ formatted[1].persona = "Unknown"
    /\ formatted[1].bucket = "Other"
    /\ formatted[1].tier = SampleValue("Tier")

\* The digest job with no record found: no model call, the placeholder report
\* as digest, and at exit one notification carrying it to the recipient.
MainWithoutRecords ==
    /\ (entry = "main" /\ dpc \in {"send", "exit"} /\ Len(entries) = 0) =>
         /\ modelCalls = 0
         /\ digest = Str(PlaceholderReport)
    /\ (entry = "main" /\ dpc = "exit" /\ Len(entries) = 0) =>
         /\ Len(dms) = 1
         /\ dms[1].to = slack_user_id
         /\ dms[1].text = Str(PlaceholderReport)

\* C6 as claimed: with no record the digest job calls no model and sends the
\* placeholder report once, and generate_digest_with_claude called with an
\* empty list returns that placeholder without a model call.
C6_PlaceholderEverywhere ==
    /\ MainWithoutRecords
    /\ (entry = "generate_digest_with_claude" /\ dpc = "returned" /\ Len(formatted) = 0) =>
         /\ modelCalls = 0
         /\ digest = Str(PlaceholderReport)

\* C6 as amended: generate_digest_with_claude called with an empty list
\* returns its own literal, which is not the placeholder report of main.
C6_TwoPlaceholders ==
    /\ MainWithoutRecords
    /\ (entry = "generate_digest_with_claude" /\ dpc = "returned" /\ Len(formatted) = 0) =>
         /\ modelCalls = 0
         /\ digest = Str(NoFeedbackText)
         /\ digest # Str(PlaceholderReport)

\* C6 witness: the digest job found nothing and has sent its one notification.
C6_Witness ==
    /\ entry = "main" /\ dpc = "exit" /\ Len(entries) = 0
    /\ modelCalls = 0
    /\ Len(dms) = 1
    /\ dms[1].text = Str(PlaceholderReport)
====
